---------------------------- MODULE Spec2Model ----------------------------
(***************************************************************************)
(* A model of the MacQ C core engine (src/c_engine/src/macq.c): the        *)
(* state vector of a QuantumState, its life cycle, the gate kernels and    *)
(* the measurement.                                                        *)
(*                                                                         *)
(* Numbers.  The amplitudes of the code are C99 `double complex`.  The     *)
(* model computes with exact numbers of the ring Z[w][1/sqrt 2], where     *)
(* w = e^(i pi/4): every constant the kernels multiply by (i, 1/sqrt 2,    *)
(* e^(i pi/4), cos and sin of multiples of pi/4) lies in it.  A number is  *)
(* the tuple <<a, b, c, d, k>> standing for                                *)
(*        (a + b w + c w^2 + d w^3) / (sqrt 2)^k                           *)
(* in lowest terms.  <<0, 0, 0, 0, -1>> stands for the NaN a double        *)
(* division 0/0 produces.  Rounding, overflow and underflow of doubles     *)
(* are not modelled.                                                       *)
(*                                                                         *)
(* The buffer of a state holds state_vector[i] / sqrt(scale): `scale` is a *)
(* positive real of the ring, 1 until a measurement or a normalisation     *)
(* divides the buffer by a square root.                                    *)
(***************************************************************************)
EXTENDS Integers, Sequences, FiniteSets, TLC

(***************************************************************************)
(* Exact arithmetic                                                        *)
(***************************************************************************)
NaN == <<0, 0, 0, 0, -1>>

Zero == <<0, 0, 0, 0, 0>>

One == <<1, 0, 0, 0, 0>>

ImagI == <<0, 0, 1, 0, 0>>

IsNaN(z) == z[5] = -1

RECURSIVE Reduce(_)
\* lowest terms: divide numerator and denominator by sqrt 2 while possible
Reduce(z) ==
  IF z[1] = 0 /\ z[2] = 0 /\ z[3] = 0 /\ z[4] = 0 THEN Zero
  ELSE IF z[5] > 0 /\ (z[1] + z[3]) % 2 = 0 /\ (z[2] + z[4]) % 2 = 0
       THEN Reduce(<<(z[2] - z[4]) \div 2, (z[1] + z[3]) \div 2,
                     (z[2] + z[4]) \div 2, (z[3] - z[1]) \div 2, z[5] - 1>>)
       ELSE z

RECURSIVE Raise(_, _)
\* the same value written over (sqrt 2)^k, for k >= z[5]
Raise(z, k) ==
  IF z[5] >= k THEN z
  ELSE Raise(<<z[2] - z[4], z[1] + z[3], z[2] + z[4], z[3] - z[1], z[5] + 1>>, k)

Max(a, b) == IF a >= b THEN a ELSE b

Add(x, y) ==
  IF IsNaN(x) \/ IsNaN(y) THEN NaN
  ELSE IF y = Zero THEN x
  ELSE IF x = Zero THEN y
  ELSE LET k == Max(x[5], y[5])
           u == Raise(x, k)
           v == Raise(y, k)
       IN  Reduce(<<u[1] + v[1], u[2] + v[2], u[3] + v[3], u[4] + v[4], k>>)

Neg(x) == IF IsNaN(x) THEN NaN ELSE <<-x[1], -x[2], -x[3], -x[4], x[5]>>

Sub(x, y) == Add(x, Neg(y))

Mul(x, y) ==
  IF IsNaN(x) \/ IsNaN(y) THEN NaN
  ELSE IF x = Zero \/ y = Zero THEN Zero
  ELSE IF x = One THEN y
  ELSE IF y = One THEN x
  ELSE Reduce(<<x[1]*y[1] - x[2]*y[4] - x[3]*y[3] - x[4]*y[2],
                x[1]*y[2] + x[2]*y[1] - x[3]*y[4] - x[4]*y[3],
                x[1]*y[3] + x[2]*y[2] + x[3]*y[1] - x[4]*y[4],
                x[1]*y[4] + x[2]*y[3] + x[3]*y[2] + x[4]*y[1],
                x[5] + y[5]>>)

Conj(x) == IF IsNaN(x) THEN NaN ELSE <<x[1], -x[4], -x[3], -x[2], x[5]>>

\* creal(z)^2 + cimag(z)^2: a real number <<u, v, 0, -v, k>> = (u + v sqrt 2)/(sqrt 2)^k
Abs2(z) ==
  IF IsNaN(z) THEN NaN
  ELSE IF z = Zero THEN Zero
  ELSE LET v == z[1]*z[2] + z[2]*z[3] + z[3]*z[4] - z[4]*z[1]
       IN  Reduce(<<z[1]*z[1] + z[2]*z[2] + z[3]*z[3] + z[4]*z[4], v, 0, -v,
                    2 * z[5]>>)

RECURSIVE CmpSqrt2(_, _)
\* the sign of a - b * sqrt 2 for naturals a, b, without squaring
CmpSqrt2(a, b) ==
  IF b = 0 THEN (IF a = 0 THEN 0 ELSE 1)
  ELSE IF a <= b THEN -1
  ELSE IF a >= 2 * b THEN 1
  ELSE -CmpSqrt2(2 * b - a, a - b)

\* the sign of a real number of the ring
Sign(r) ==
  LET u == r[1]
      v == r[2]
  IN  IF u >= 0 /\ v >= 0 THEN (IF u = 0 /\ v = 0 THEN 0 ELSE 1)
      ELSE IF u <= 0 /\ v <= 0 THEN -1
      ELSE IF u > 0 THEN CmpSqrt2(u, -v)
      ELSE -CmpSqrt2(-u, v)

\* x < y for real numbers of the ring; false when either is NaN, as in C
Less(x, y) == ~IsNaN(x) /\ ~IsNaN(y) /\ Sign(Sub(y, x)) = 1


(***************************************************************************)
(* Constants of the program and bounds of the model                        *)
(***************************************************************************)
MAX_QUBITS == 30

MACQ_SUCCESS == 0

MACQ_ERROR_INVALID_GATE == -3

MACQ_ERROR_INVALID_INDEX == -4

MACQ_ERROR_NULL_POINTER == -5

\* the value of <stdlib.h>'s RAND_MAX the model computes with
RAND_MAX == 32767

\* the largest register the model creates
MaxQubits == 3

\* the number of calls made on a handle after its creation
MaxOps == 2

\* rotation angles, in units of pi/2
Thetas == {1, 2}

\* the draws of rand() the model takes: both ends and one value inside
RandDraws == {0, 16383, RAND_MAX}

\* the requests made of qstate_create
CreateArgs == (-1 .. MaxQubits) \cup {MAX_QUBITS + 1}

\* the outcomes of the two allocations of qstate_create
AllocOutcomes == {"ok", "no_struct", "no_buffer"}

\* the amplitudes handed to qstate_set_amplitude
AmpSet == {Zero, <<0, 0, 2, 0, 0>>}

NULL == [null |-> TRUE]

Pow2(n) == 2 ^ n

\* (i & (1ULL << q)) != 0
BitSet(i, q) == (i \div Pow2(q)) % 2 = 1

\* i ^ (1ULL << q)
FlipBit(i, q) == IF BitSet(i, q) THEN i - Pow2(q) ELSE i + Pow2(q)

VARIABLES
  qs,    \* the QuantumState behind the caller's handle, or NULL
  old,   \* qs as it was when the call that just returned was made
  call,  \* the call that just returned: its operation and its arguments
  ret,   \* what it returned
  ops,   \* the number of calls made since the creation
  heap,     \* the buffers allocated so far, by address (two-handle caller)
  handles,  \* the QuantumState structs behind the handles src and dst, or NULL
  dm,       \* the DensityMatrix built from the state, or NULL
  reduced,  \* the DensityMatrix a partial trace returned, or NULL
  loop      \* the position of a single-qubit kernel inside its block loop

vars == <<qs, old, call, ret, ops, heap, handles, dm, reduced, loop>>

\* what the one-handle caller never touches
aside == <<heap, handles, dm, reduced, loop>>

(***************************************************************************)
(* Core quantum state functions                                            *)
(***************************************************************************)
\* mutant: the upper bound of the index is off by one
is_valid_qubit_index_le(s, qubit) ==
  s # NULL /\ qubit >= 0 /\ qubit <= s.num_qubits

is_valid_qubit_index(s, qubit) ==
  s # NULL /\ qubit >= 0 /\ qubit < s.num_qubits

\* mutant: the buffer is cleared but state_vector[0] is never set
qstate_create_zeroed(num_qubits, alloc) ==
  IF num_qubits < 1 \/ num_qubits > MAX_QUBITS \/ alloc # "ok" THEN NULL
  ELSE [num_qubits |-> num_qubits,
        vector_size |-> Pow2(num_qubits),
        state_vector |-> [i \in 0 .. Pow2(num_qubits) - 1 |-> Zero],
        norm |-> One,
        scale |-> One]

\* mutant: the lower bound of num_qubits is off by one
qstate_create_from_zero(num_qubits, alloc) ==
  IF num_qubits < 0 \/ num_qubits > MAX_QUBITS \/ alloc # "ok" THEN NULL
  ELSE [num_qubits |-> num_qubits,
        vector_size |-> Pow2(num_qubits),
        state_vector |-> [i \in 0 .. Pow2(num_qubits) - 1 |->
                            IF i = 0 THEN One ELSE Zero],
        norm |-> One,
        scale |-> One]

qstate_create(num_qubits, alloc) ==
  IF num_qubits < 1 \/ num_qubits > MAX_QUBITS THEN NULL
  ELSE IF alloc = "no_struct" THEN NULL
  ELSE IF alloc = "no_buffer" THEN NULL
  ELSE [num_qubits |-> num_qubits,
        vector_size |-> Pow2(num_qubits),
        state_vector |-> [i \in 0 .. Pow2(num_qubits) - 1 |->
                            IF i = 0 THEN One ELSE Zero],
        norm |-> One,
        scale |-> One]


RECURSIVE MulSqrt2(_, _)
\* z * (sqrt 2)^e, for e >= 0
MulSqrt2(z, e) ==
  IF e = 0 \/ IsNaN(z) THEN z
  ELSE IF z[5] > 0 THEN MulSqrt2(<<z[1], z[2], z[3], z[4], z[5] - 1>>, e - 1)
  ELSE MulSqrt2(<<z[2] - z[4], z[1] + z[3], z[2] + z[4], z[3] - z[1], 0>>, e - 1)

\* z / (sqrt 2)^e, for any integer e
DivSqrt2(z, e) ==
  IF IsNaN(z) THEN NaN
  ELSE IF e >= 0 THEN Reduce(<<z[1], z[2], z[3], z[4], z[5] + e>>)
  ELSE MulSqrt2(z, -e)

RECURSIVE Log2(_)
\* the exponent of a power of two, -1 for any other number
Log2(m) ==
  IF m = 1 THEN 0
  ELSE IF m < 1 \/ m % 2 = 1 THEN -1
  ELSE LET l == Log2(m \div 2) IN IF l = -1 THEN -1 ELSE l + 1

\* the buffer state_vector[i] / sqrt(scale), written with scale 1 when
\* sqrt(scale) is a power of sqrt 2 (the same values, one representation)
Canon(s) ==
  LET S == s.scale
      rational == S[2] = 0 /\ S[3] = 0 /\ S[4] = 0
      e == IF rational /\ S[5] = 0 /\ Log2(S[1]) >= 0 THEN Log2(S[1])
           ELSE IF rational /\ S[1] = 1 /\ S[5] % 2 = 0 THEN -(S[5] \div 2)
           ELSE 0
  IN  IF S = One \/ ~rational \/ (e = 0) THEN s
      ELSE [s EXCEPT !.state_vector =
                        [i \in DOMAIN s.state_vector |-> DivSqrt2(s.state_vector[i], e)],
                     !.scale = One]

RECURSIVE BasisIndex_msb(_, _, _)
\* mutant: the string is read most-significant bit first
BasisIndex_msb(bitstring, i, index) ==
  IF i >= Len(bitstring) THEN index
  ELSE IF bitstring[i + 1] = "1"
       THEN BasisIndex_msb(bitstring, i + 1, index + Pow2(Len(bitstring) - 1 - i))
  ELSE IF bitstring[i + 1] # "0" THEN -1
  ELSE BasisIndex_msb(bitstring, i + 1, index)

RECURSIVE BasisIndex(_, _, _)
\* the loop of qstate_init_basis: the index, or -1 at a character that is
\* neither '0' nor '1'
BasisIndex(bitstring, i, index) ==
  IF i >= Len(bitstring) THEN index
  ELSE IF bitstring[i + 1] = "1" THEN BasisIndex(bitstring, i + 1, index + Pow2(i))
  ELSE IF bitstring[i + 1] # "0" THEN -1
  ELSE BasisIndex(bitstring, i + 1, index)

qstate_init_basis(s, bitstring) ==
  IF s = NULL THEN [qs |-> s, ret |-> MACQ_ERROR_NULL_POINTER]
  ELSE IF Len(bitstring) # s.num_qubits
       THEN [qs |-> s, ret |-> MACQ_ERROR_INVALID_INDEX]
  ELSE LET cleared == [s EXCEPT !.state_vector = [i \in 0 .. s.vector_size - 1 |-> Zero],
                                !.scale = One]
           index == BasisIndex(bitstring, 0, 0)
       IN  IF index = -1
           THEN [qs |-> cleared, ret |-> MACQ_ERROR_INVALID_INDEX]
           ELSE [qs |-> [cleared EXCEPT !.state_vector[index] = One, !.norm = One],
                 ret |-> MACQ_SUCCESS]

RECURSIVE SumAbs2(_, _, _, _)
\* the loop of qstate_norm: norm_squared += creal^2 + cimag^2, for i..size-1
SumAbs2(sv, i, size, norm_squared) ==
  IF i >= size THEN norm_squared
  ELSE SumAbs2(sv, i + 1, size, Add(norm_squared, Abs2(sv[i])))

\* 1e-10, the threshold of qstate_normalize, as a power of two: the model
\* compares the squared norm with 2^-66 (2^-67 < 1e-20 < 2^-66)
NormThresholdLog2 == 66

RECURSIVE NormBelow(_, _, _)
\* sqrt(m / sc) < 1e-10 for a real m >= 0 and a positive real sc, decided
\* by doubling m at most NormThresholdLog2 times; false for NaN, as in C
NormBelow(m, sc, j) ==
  IF IsNaN(m) THEN FALSE
  ELSE IF Sign(m) <= 0 THEN TRUE
  ELSE IF ~Less(m, sc) THEN FALSE
  ELSE IF j >= NormThresholdLog2 THEN TRUE
  ELSE NormBelow(Add(m, m), sc, j + 1)

\* the buffer divided by norm = sqrt(norm_squared / scale): the values
\* state_vector[i] / sqrt(norm_squared), so the new scale is norm_squared
qstate_normalize(s) ==
  IF s = NULL THEN [qs |-> s, ret |-> MACQ_ERROR_NULL_POINTER]
  ELSE LET norm_squared == SumAbs2(s.state_vector, 0, s.vector_size, Zero)
       IN  IF NormBelow(norm_squared, s.scale, 0)
           THEN [qs |-> s, ret |-> MACQ_ERROR_INVALID_GATE]
           ELSE IF IsNaN(norm_squared)
           THEN [qs |-> [s EXCEPT !.state_vector =
                            [i \in 0 .. s.vector_size - 1 |-> NaN],
                                  !.scale = One, !.norm = One],
                 ret |-> MACQ_SUCCESS]
           ELSE [qs |-> Canon([s EXCEPT !.scale = norm_squared, !.norm = One]),
                 ret |-> MACQ_SUCCESS]

\* the cplx 0.0; a cplx read from the buffer is held as num / sqrt(den)
CplxZero == [num |-> Zero, den |-> One]

qstate_get_amplitude(s, basis_index) ==
  IF s = NULL THEN [qs |-> s, ret |-> CplxZero]
  ELSE IF basis_index >= s.vector_size THEN [qs |-> s, ret |-> CplxZero]
  ELSE [qs |-> s,
        ret |-> [num |-> s.state_vector[basis_index], den |-> s.scale]]

\* mutant: the amplitude is written at every index of the buffer
qstate_set_amplitude_all(s, basis_index, amplitude) ==
  IF s = NULL \/ basis_index >= s.vector_size
  THEN [qs |-> s, ret |-> MACQ_ERROR_INVALID_INDEX]
  ELSE [qs |-> [s EXCEPT !.state_vector =
                   [i \in 0 .. s.vector_size - 1 |-> amplitude]],
        ret |-> MACQ_SUCCESS]

\* writes `amplitude` into the buffer; the action that uses it keeps to the
\* calls whose amplitude the representation can hold (scale 1, or amplitude 0)
qstate_set_amplitude(s, basis_index, amplitude) ==
  IF s = NULL \/ basis_index >= s.vector_size
  THEN [qs |-> s, ret |-> MACQ_ERROR_INVALID_INDEX]
  ELSE [qs |-> [s EXCEPT !.state_vector[basis_index] = amplitude],
        ret |-> MACQ_SUCCESS]


(***************************************************************************)
(* Single-qubit gates and rotations                                        *)
(***************************************************************************)
\* 1.0 / sqrt(2.0)
inv_sqrt2 == <<1, 0, 0, 0, 1>>

\* cexp(I * M_PI / 4.0)
t_phase == <<0, 1, 0, 0, 0>>

\* cos(m * pi / 4)
CosQ(m) ==
  LET r == m % 8
  IN  CASE r = 0 -> One
        [] r = 1 \/ r = 7 -> inv_sqrt2
        [] r = 2 \/ r = 6 -> Zero
        [] r = 3 \/ r = 5 -> Neg(inv_sqrt2)
        [] r = 4 -> Neg(One)

\* sin(m * pi / 4)
SinQ(m) == CosQ(m + 6)

\* cexp(I * m * pi / 4)
CExpQ(m) == Add(CosQ(m), Mul(ImagI, SinQ(m)))

\* What each kernel writes to (state_vector[idx0], state_vector[idx1]) from the
\* values (a0, a1) it read there.  theta is in units of pi/2.
\* mutant: the swap without its temporary
PairX_copy(a0, a1) == <<a1, a1>>

PairX(a0, a1) == <<a1, a0>>

PairY(a0, a1) == <<Mul(Neg(ImagI), a1), Mul(ImagI, a0)>>

PairZ(a0, a1) == <<a0, Neg(a1)>>

\* mutant: the factor 1/sqrt 2 is left out
PairH_unscaled(a0, a1) == <<Add(a0, a1), Sub(a0, a1)>>

PairH(a0, a1) == <<Mul(inv_sqrt2, Add(a0, a1)), Mul(inv_sqrt2, Sub(a0, a1))>>

PairS(a0, a1) == <<a0, Mul(a1, ImagI)>>

PairT(a0, a1) == <<a0, Mul(a1, t_phase)>>

PairRx(theta, a0, a1) ==
  LET cos_half == CosQ(theta)
      sin_half == SinQ(theta)
      neg_i == Neg(ImagI)
  IN  <<Add(Mul(cos_half, a0), Mul(Mul(neg_i, sin_half), a1)),
        Add(Mul(Mul(neg_i, sin_half), a0), Mul(cos_half, a1))>>

PairRy(theta, a0, a1) ==
  LET cos_half == CosQ(theta)
      sin_half == SinQ(theta)
  IN  <<Sub(Mul(cos_half, a0), Mul(sin_half, a1)),
        Add(Mul(sin_half, a0), Mul(cos_half, a1))>>

PairRz(theta, a0, a1) ==
  LET phase_neg == CExpQ(8 - (theta % 8))
      phase_pos == CExpQ(theta)
  IN  <<Mul(a0, phase_neg), Mul(a1, phase_pos)>>

Gate2x2(gate, theta, a0, a1) ==
  CASE gate = "x" -> PairX(a0, a1)
    [] gate = "y" -> PairY(a0, a1)
    [] gate = "z" -> PairZ(a0, a1)
    [] gate = "h" -> PairH(a0, a1)
    [] gate = "s" -> PairS(a0, a1)
    [] gate = "t" -> PairT(a0, a1)
    [] gate = "rx" -> PairRx(theta, a0, a1)
    [] gate = "ry" -> PairRy(theta, a0, a1)
    [] gate = "rz" -> PairRz(theta, a0, a1)

\* mutant: the stride of a block is block_size, not twice block_size
BlockPair_stride(block, i, block_size) ==
  LET base_idx == block * block_size
      idx0 == base_idx + i
      idx1 == idx0 + block_size
  IN  <<idx0, idx1>>

\* the pair <<idx0, idx1>> iteration i of block `block` works on
BlockPair(block, i, block_size) ==
  LET base_idx == block * (block_size * 2)
      idx0 == base_idx + i
      idx1 == idx0 + block_size
  IN  <<idx0, idx1>>

RECURSIVE BlockLoop(_, _, _, _, _, _, _)
\* for (block < num_blocks) for (i < block_size): the gate on the pair
BlockLoop(sv, block, i, block_size, num_blocks, gate, theta) ==
  IF block >= num_blocks THEN sv
  ELSE IF i >= block_size
       THEN BlockLoop(sv, block + 1, 0, block_size, num_blocks, gate, theta)
  ELSE LET idx0 == BlockPair(block, i, block_size)[1]
           idx1 == BlockPair(block, i, block_size)[2]
           w == Gate2x2(gate, theta, sv[idx0], sv[idx1])
       IN  BlockLoop([sv EXCEPT ![idx0] = w[1], ![idx1] = w[2]],
                     block, i + 1, block_size, num_blocks, gate, theta)

\* the body the nine single-qubit kernels share
SingleQubitKernel(s, target, gate, theta) ==
  IF ~is_valid_qubit_index(s, target)
  THEN [qs |-> s, ret |-> MACQ_ERROR_INVALID_INDEX]
  ELSE LET block_size == Pow2(target)
           num_blocks == s.vector_size \div Pow2(target + 1)
       IN  [qs |-> [s EXCEPT !.state_vector =
                       BlockLoop(s.state_vector, 0, 0, block_size, num_blocks,
                                 gate, theta)],
            ret |-> MACQ_SUCCESS]

qstate_apply_x(s, target) == SingleQubitKernel(s, target, "x", 0)

qstate_apply_y(s, target) == SingleQubitKernel(s, target, "y", 0)

qstate_apply_z(s, target) == SingleQubitKernel(s, target, "z", 0)

qstate_apply_h(s, target) == SingleQubitKernel(s, target, "h", 0)

qstate_apply_s(s, target) == SingleQubitKernel(s, target, "s", 0)

qstate_apply_t(s, target) == SingleQubitKernel(s, target, "t", 0)

qstate_apply_rx(s, target, theta) == SingleQubitKernel(s, target, "rx", theta)

qstate_apply_ry(s, target, theta) == SingleQubitKernel(s, target, "ry", theta)

qstate_apply_rz(s, target, theta) == SingleQubitKernel(s, target, "rz", theta)


(***************************************************************************)
(* Two- and three-qubit gates                                              *)
(***************************************************************************)
\* mutant: no temporary, sv[pair_idx] is written from the overwritten sv[i]
SwapAt_copy(sv, i, pair_idx) == [sv EXCEPT ![i] = sv[pair_idx]]

\* temp = sv[i]; sv[i] = sv[pair_idx]; sv[pair_idx] = temp
SwapAt(sv, i, pair_idx) == [sv EXCEPT ![i] = sv[pair_idx], ![pair_idx] = sv[i]]

RECURSIVE CnotLoop_unguarded(_, _, _, _, _)
\* mutant: no i < pair_idx guard, each pair is swapped from both its ends
CnotLoop_unguarded(sv, i, size, control, target) ==
  IF i >= size THEN sv
  ELSE LET pair_idx == FlipBit(i, target)
       IN  CnotLoop_unguarded(IF BitSet(i, control)
                              THEN SwapAt(sv, i, pair_idx) ELSE sv,
                              i + 1, size, control, target)

RECURSIVE CnotLoop(_, _, _, _, _)
CnotLoop(sv, i, size, control, target) ==
  IF i >= size THEN sv
  ELSE LET pair_idx == FlipBit(i, target)
       IN  CnotLoop(IF BitSet(i, control) /\ i < pair_idx
                    THEN SwapAt(sv, i, pair_idx) ELSE sv,
                    i + 1, size, control, target)

\* mutant: control = target is not rejected
qstate_apply_cnot_unchecked(s, control, target) ==
  IF ~is_valid_qubit_index(s, control) \/ ~is_valid_qubit_index(s, target)
  THEN [qs |-> s, ret |-> MACQ_ERROR_INVALID_INDEX]
  ELSE [qs |-> [s EXCEPT !.state_vector =
                   CnotLoop(s.state_vector, 0, s.vector_size, control, target)],
        ret |-> MACQ_SUCCESS]

qstate_apply_cnot(s, control, target) ==
  IF ~is_valid_qubit_index(s, control) \/ ~is_valid_qubit_index(s, target)
  THEN [qs |-> s, ret |-> MACQ_ERROR_INVALID_INDEX]
  ELSE IF control = target
       THEN [qs |-> s, ret |-> MACQ_ERROR_INVALID_GATE]
  ELSE [qs |-> [s EXCEPT !.state_vector =
                   CnotLoop(s.state_vector, 0, s.vector_size, control, target)],
        ret |-> MACQ_SUCCESS]

RECURSIVE CzLoop(_, _, _, _, _)
CzLoop(sv, i, size, control, target) ==
  IF i >= size THEN sv
  ELSE CzLoop(IF BitSet(i, control) /\ BitSet(i, target)
              THEN [sv EXCEPT ![i] = Neg(sv[i])] ELSE sv,
              i + 1, size, control, target)

qstate_apply_cz(s, control, target) ==
  IF ~is_valid_qubit_index(s, control) \/ ~is_valid_qubit_index(s, target)
  THEN [qs |-> s, ret |-> MACQ_ERROR_INVALID_INDEX]
  ELSE [qs |-> [s EXCEPT !.state_vector =
                   CzLoop(s.state_vector, 0, s.vector_size, control, target)],
        ret |-> MACQ_SUCCESS]

RECURSIVE SwapLoop_unguarded(_, _, _, _, _)
\* mutant: no i < pair_idx guard, each pair is exchanged from both its ends
SwapLoop_unguarded(sv, i, size, qubit1, qubit2) ==
  IF i >= size THEN sv
  ELSE LET bit1 == BitSet(i, qubit1)
           bit2 == BitSet(i, qubit2)
           pair_idx == FlipBit(FlipBit(i, qubit1), qubit2)
       IN  SwapLoop_unguarded(IF bit1 # bit2
                              THEN SwapAt(sv, i, pair_idx) ELSE sv,
                              i + 1, size, qubit1, qubit2)

RECURSIVE SwapLoop(_, _, _, _, _)
SwapLoop(sv, i, size, qubit1, qubit2) ==
  IF i >= size THEN sv
  ELSE LET bit1 == BitSet(i, qubit1)
           bit2 == BitSet(i, qubit2)
           pair_idx == FlipBit(FlipBit(i, qubit1), qubit2)
       IN  SwapLoop(IF bit1 # bit2 /\ i < pair_idx
                    THEN SwapAt(sv, i, pair_idx) ELSE sv,
                    i + 1, size, qubit1, qubit2)

qstate_apply_swap(s, qubit1, qubit2) ==
  IF ~is_valid_qubit_index(s, qubit1) \/ ~is_valid_qubit_index(s, qubit2)
  THEN [qs |-> s, ret |-> MACQ_ERROR_INVALID_INDEX]
  ELSE IF qubit1 = qubit2
       THEN [qs |-> s, ret |-> MACQ_SUCCESS]
  ELSE [qs |-> [s EXCEPT !.state_vector =
                   SwapLoop(s.state_vector, 0, s.vector_size, qubit1, qubit2)],
        ret |-> MACQ_SUCCESS]

RECURSIVE ToffoliLoop_one_control(_, _, _, _, _, _)
\* mutant: the second control bit is not tested
ToffoliLoop_one_control(sv, i, size, control1, control2, target) ==
  IF i >= size THEN sv
  ELSE LET pair_idx == FlipBit(i, target)
       IN  ToffoliLoop_one_control(IF BitSet(i, control1) /\ i < pair_idx
                                   THEN SwapAt(sv, i, pair_idx) ELSE sv,
                                   i + 1, size, control1, control2, target)

RECURSIVE ToffoliLoop(_, _, _, _, _, _)
ToffoliLoop(sv, i, size, control1, control2, target) ==
  IF i >= size THEN sv
  ELSE LET pair_idx == FlipBit(i, target)
       IN  ToffoliLoop(IF BitSet(i, control1) /\ BitSet(i, control2) /\ i < pair_idx
                       THEN SwapAt(sv, i, pair_idx) ELSE sv,
                       i + 1, size, control1, control2, target)

qstate_apply_toffoli(s, control1, control2, target) ==
  IF \/ ~is_valid_qubit_index(s, control1)
     \/ ~is_valid_qubit_index(s, control2)
     \/ ~is_valid_qubit_index(s, target)
  THEN [qs |-> s, ret |-> MACQ_ERROR_INVALID_INDEX]
  ELSE [qs |-> [s EXCEPT !.state_vector =
                   ToffoliLoop(s.state_vector, 0, s.vector_size,
                               control1, control2, target)],
        ret |-> MACQ_SUCCESS]

(***************************************************************************)
(* Measurement                                                             *)
(***************************************************************************)
RECURSIVE ProbLoop(_, _, _, _, _, _)
\* the first loop of qstate_measure: <<prob_0, prob_1>>, in units of 1/scale
ProbLoop(sv, i, size, qubit, prob_0, prob_1) ==
  IF i >= size THEN <<prob_0, prob_1>>
  ELSE IF BitSet(i, qubit)
       THEN ProbLoop(sv, i + 1, size, qubit, prob_0, Add(prob_1, Abs2(sv[i])))
       ELSE ProbLoop(sv, i + 1, size, qubit, Add(prob_0, Abs2(sv[i])), prob_1)

\* qstate_measure past its check of the index.  rand is the draw of the
\* pseudo-random source; rand_val = rand / RAND_MAX
Collapse(s, qubit, rand) ==
  LET p == ProbLoop(s.state_vector, 0, s.vector_size, qubit, Zero, Zero)
      prob_0 == p[1]
      prob_1 == p[2]
      total == Add(prob_0, prob_1)
      \* rand_val < prob_0 / (prob_0 + prob_1); the quotient is NaN, and
      \* the comparison false, when the sum is 0 or NaN
      result == IF /\ ~IsNaN(total)
                   /\ Sign(total) = 1
                   /\ Less(Mul(<<rand, 0, 0, 0, 0>>, total),
                           Mul(<<RAND_MAX, 0, 0, 0, 0>>, prob_0))
                THEN 0 ELSE 1
      prob_r == IF result = 0 THEN prob_0 ELSE prob_1
      \* norm_factor = sqrt(prob_r): dividing by it is 0/0 when it is 0
      undefined == IsNaN(prob_r) \/ Sign(prob_r) = 0
      collapsed == [i \in 0 .. s.vector_size - 1 |->
                      IF BitSet(i, qubit) = (result = 1)
                      THEN (IF undefined THEN NaN ELSE s.state_vector[i])
                      ELSE Zero]
  IN  [qs |-> Canon([s EXCEPT !.state_vector = collapsed,
                              !.scale = IF undefined THEN One ELSE prob_r]),
       ret |-> result]

\* mutant: only the lower bound of the index is checked
qstate_measure_no_upper(s, qubit, rand) ==
  IF s = NULL \/ qubit < 0 THEN [qs |-> s, ret |-> -1]
  ELSE Collapse(s, qubit, rand)

qstate_measure(s, qubit, rand) ==
  IF ~is_valid_qubit_index(s, qubit) THEN [qs |-> s, ret |-> -1]
  ELSE Collapse(s, qubit, rand)


\* the double -1.0; a double that depends on the buffer is held as num / den
MinusOne == [num |-> Neg(One), den |-> One]

RECURSIVE Prob1Loop_all(_, _, _, _, _)
\* mutant: the mask is not tested, every index is summed
Prob1Loop_all(sv, i, size, qubit, prob_1) ==
  IF i >= size THEN prob_1
  ELSE Prob1Loop_all(sv, i + 1, size, qubit, Add(prob_1, Abs2(sv[i])))

RECURSIVE Prob1Loop(_, _, _, _, _)
\* the loop of qstate_probability: prob_1, in units of 1/scale
Prob1Loop(sv, i, size, qubit, prob_1) ==
  IF i >= size THEN prob_1
  ELSE Prob1Loop(sv, i + 1, size, qubit,
                 IF BitSet(i, qubit) THEN Add(prob_1, Abs2(sv[i])) ELSE prob_1)

qstate_probability(s, qubit) ==
  IF ~is_valid_qubit_index(s, qubit) THEN [qs |-> s, ret |-> MinusOne]
  ELSE [qs |-> s,
        ret |-> [num |-> Prob1Loop(s.state_vector, 0, s.vector_size, qubit, Zero),
                 den |-> s.scale]]

qstate_basis_probability(s, basis_index) ==
  IF s = NULL THEN [qs |-> s, ret |-> MinusOne]
  ELSE IF basis_index >= s.vector_size THEN [qs |-> s, ret |-> MinusOne]
  ELSE [qs |-> s,
        ret |-> [num |-> Abs2(s.state_vector[basis_index]), den |-> s.scale]]


(***************************************************************************)
(* The caller: one handle, created once, then at most MaxOps calls on it.  *)
(* Every call runs to completion in one step (the engine is synchronous);  *)
(* the caller then looks at what came back and goes on to its next call.   *)
(***************************************************************************)
\* the qubit arguments tried on a state: every valid one, and one on each side
QubitArgs == -1 .. (IF qs = NULL THEN 0 ELSE qs.num_qubits)

\* the strings tried on a state: every string of '0' and '1' of the right
\* length, the strings of one repeated digit with one character replaced by
\* 'x', and a shorter and a longer string
BitStrings ==
  LET n == IF qs = NULL THEN 0 ELSE qs.num_qubits
  IN  [1 .. n -> {"0", "1"}]
        \cup {[i \in 1 .. n |-> IF i = k THEN "x" ELSE c] : k \in 1 .. n, c \in {"0", "1"}}
        \cup {[i \in 1 .. m |-> "1"] : m \in {n - 1, n + 1} \ {-1}}

\* the basis indices tried on a state: every valid one, and the first invalid one
IndexArgs == 0 .. (IF qs = NULL THEN 0 ELSE qs.vector_size)

\* nothing allocated, no handle, no matrix, no loop running
Unused ==
  /\ heap = <<>>
  /\ handles = [src |-> NULL, dst |-> NULL]
  /\ dm = NULL
  /\ reduced = NULL
  /\ loop = NULL

Init ==
  /\ qs = NULL
  /\ old = NULL
  /\ call = [op |-> "none", args |-> <<>>]
  /\ ret = 0
  /\ ops = 0
  /\ Unused

\* a call that was made with arguments a and came back with r
Returned(name, a, r) ==
  /\ qs' = r.qs
  /\ ret' = r.ret
  /\ old' = qs
  /\ call' = [op |-> name, args |-> a]
  /\ ops' = ops + 1
  /\ UNCHANGED aside

\* the caller is between two calls
Idle == call.op = "idle"

CanCall == Idle /\ ops < MaxOps

\* the caller has seen the result of the last call and goes on
Resume ==
  /\ call.op \notin {"none", "idle"}
  /\ ops < MaxOps
  /\ call' = [op |-> "idle", args |-> <<>>]
  /\ old' = NULL
  /\ ret' = 0
  /\ UNCHANGED <<qs, ops>>
  /\ UNCHANGED aside

Create ==
  /\ call.op = "none"
  /\ \E n \in CreateArgs, alloc \in AllocOutcomes :
       /\ qs' = qstate_create(n, alloc)
       /\ call' = [op |-> "create", args |-> <<n, alloc>>]
  /\ old' = qs
  /\ ret' = 0
  /\ ops' = 0
  /\ UNCHANGED aside

InitBasis ==
  /\ CanCall
  /\ \E b \in BitStrings : Returned("init_basis", b, qstate_init_basis(qs, b))

Normalize == CanCall /\ Returned("normalize", <<>>, qstate_normalize(qs))

SetAmplitude ==
  /\ CanCall
  /\ \E i \in IndexArgs, a \in AmpSet :
       /\ IF qs = NULL THEN TRUE ELSE IF qs.scale = One THEN TRUE ELSE a = Zero
       /\ Returned("set_amplitude", <<i, a>>, qstate_set_amplitude(qs, i, a))

ApplyX == CanCall /\ \E t \in QubitArgs : Returned("apply_x", <<t>>, qstate_apply_x(qs, t))

ApplyY == CanCall /\ \E t \in QubitArgs : Returned("apply_y", <<t>>, qstate_apply_y(qs, t))

ApplyZ == CanCall /\ \E t \in QubitArgs : Returned("apply_z", <<t>>, qstate_apply_z(qs, t))

ApplyH == CanCall /\ \E t \in QubitArgs : Returned("apply_h", <<t>>, qstate_apply_h(qs, t))

ApplyS == CanCall /\ \E t \in QubitArgs : Returned("apply_s", <<t>>, qstate_apply_s(qs, t))

ApplyT == CanCall /\ \E t \in QubitArgs : Returned("apply_t", <<t>>, qstate_apply_t(qs, t))

ApplyRx ==
  CanCall /\ \E t \in QubitArgs, th \in Thetas :
    Returned("apply_rx", <<t, th>>, qstate_apply_rx(qs, t, th))

ApplyRy ==
  CanCall /\ \E t \in QubitArgs, th \in Thetas :
    Returned("apply_ry", <<t, th>>, qstate_apply_ry(qs, t, th))

ApplyRz ==
  CanCall /\ \E t \in QubitArgs, th \in Thetas :
    Returned("apply_rz", <<t, th>>, qstate_apply_rz(qs, t, th))

ApplyCnot ==
  CanCall /\ \E c \in QubitArgs, t \in QubitArgs :
    Returned("apply_cnot", <<c, t>>, qstate_apply_cnot(qs, c, t))

ApplyCz ==
  CanCall /\ \E c \in QubitArgs, t \in QubitArgs :
    Returned("apply_cz", <<c, t>>, qstate_apply_cz(qs, c, t))

ApplySwap ==
  CanCall /\ \E q1 \in QubitArgs, q2 \in QubitArgs :
    Returned("apply_swap", <<q1, q2>>, qstate_apply_swap(qs, q1, q2))

ApplyToffoli ==
  CanCall /\ \E c1 \in QubitArgs, c2 \in QubitArgs, t \in QubitArgs :
    Returned("apply_toffoli", <<c1, c2, t>>, qstate_apply_toffoli(qs, c1, c2, t))

Probability ==
  CanCall /\ \E q \in QubitArgs :
    Returned("probability", <<q>>, qstate_probability(qs, q))

BasisProbability ==
  CanCall /\ \E i \in IndexArgs :
    Returned("basis_probability", <<i>>, qstate_basis_probability(qs, i))

Measure ==
  CanCall /\ \E q \in QubitArgs, r \in RandDraws :
    Returned("measure", <<q, r>>, qstate_measure(qs, q, r))

Next ==
  \/ Create
  \/ Resume
  \/ InitBasis
  \/ Normalize
  \/ SetAmplitude
  \/ ApplyX
  \/ ApplyY
  \/ ApplyZ
  \/ ApplyH
  \/ ApplyS
  \/ ApplyT
  \/ ApplyRx
  \/ ApplyRy
  \/ ApplyRz
  \/ ApplyCnot
  \/ ApplyCz
  \/ ApplySwap
  \/ ApplyToffoli
  \/ Measure
  \/ Probability
  \/ BasisProbability

Spec == Init /\ [][Next]_vars


(***************************************************************************)
(* The caller with two handles.  A QuantumState struct holds a pointer to  *)
(* its buffer: `heap` maps the addresses handed out so far to the buffers, *)
(* and a kernel called on a handle reads and writes the buffer its struct  *)
(* points to.                                                              *)
(***************************************************************************)
\* the largest register of the two-handle caller
MaxCloneQubits == 1

\* the number of calls the two-handle caller makes after the creation
MaxCloneOps == 3

\* the state a kernel sees through a struct: the struct's fields and the
\* contents of the buffer it points to
Deref(hp, s) ==
  IF s = NULL THEN NULL
  ELSE [num_qubits |-> s.num_qubits,
        vector_size |-> s.vector_size,
        state_vector |-> hp[s.state_vector].state_vector,
        norm |-> s.norm,
        scale |-> hp[s.state_vector].scale]

\* qstate_create seen with its allocations: a struct whose state_vector points
\* to a fresh buffer holding what create wrote
CreateOnHeap(hp, num_qubits, alloc) ==
  LET c == qstate_create(num_qubits, alloc)
  IN  IF c = NULL THEN [heap |-> hp, qs |-> NULL]
      ELSE [heap |-> Append(hp, [state_vector |-> c.state_vector, scale |-> c.scale]),
            qs |-> [num_qubits |-> c.num_qubits,
                    vector_size |-> c.vector_size,
                    state_vector |-> Len(hp) + 1,
                    norm |-> c.norm]]

\* mutant: the pointer to the buffer is copied, not the buffer
qstate_clone_shallow(hp, s, alloc) ==
  IF s = NULL THEN [heap |-> hp, qs |-> NULL]
  ELSE LET new_qs == CreateOnHeap(hp, s.num_qubits, alloc)
       IN  IF new_qs.qs = NULL THEN new_qs
           ELSE [heap |-> new_qs.heap,
                 qs |-> [new_qs.qs EXCEPT !.state_vector = s.state_vector,
                                          !.norm = s.norm]]

qstate_clone(hp, s, alloc) ==
  IF s = NULL THEN [heap |-> hp, qs |-> NULL]
  ELSE LET new_qs == CreateOnHeap(hp, s.num_qubits, alloc)
       IN  IF new_qs.qs = NULL THEN new_qs
           ELSE \* memcpy(new_qs->state_vector, qs->state_vector, ...)
                [heap |-> [new_qs.heap EXCEPT ![new_qs.qs.state_vector] =
                                                 hp[s.state_vector]],
                 qs |-> [new_qs.qs EXCEPT !.norm = s.norm]]

Handles == {"src", "dst"}

\* the handles that hold a state
Live == {x \in Handles : handles[x] # NULL}

\* the state behind handle x
StateOf(x) == Deref(heap, handles[x])

\* the valid qubit arguments and basis indices of handle x, and the strings
\* tried on it: every valid one and one with a character that is no digit
QubitsOf(x) == 0 .. handles[x].num_qubits - 1

IndicesOf(x) == 0 .. handles[x].vector_size - 1

BitStringsOf(x) ==
  [1 .. handles[x].num_qubits -> {"0", "1"}]
    \cup {[i \in 1 .. handles[x].num_qubits |-> "x"]}

CloneCanCall == Idle /\ ops < MaxCloneOps

\* a call made on handle x with arguments a came back with r: the kernel
\* wrote r.qs through the struct of x
ReturnedOn(x, name, a, r) ==
  /\ heap' = [heap EXCEPT ![handles[x].state_vector] =
                            [state_vector |-> r.qs.state_vector,
                             scale |-> r.qs.scale]]
  /\ handles' = [handles EXCEPT ![x].norm = r.qs.norm]
  /\ ret' = r.ret
  /\ call' = [op |-> name, args |-> <<x>> \o a]
  /\ ops' = ops + 1
  /\ UNCHANGED <<qs, old, dm, reduced, loop>>

CloneResume ==
  /\ call.op \notin {"none", "idle"}
  /\ ops < MaxCloneOps
  /\ call' = [op |-> "idle", args |-> <<>>]
  /\ ret' = 0
  /\ UNCHANGED <<qs, old, ops, heap, handles, dm, reduced, loop>>

CloneCreate ==
  /\ call.op = "none"
  /\ \E n \in 1 .. MaxCloneQubits :
       LET c == CreateOnHeap(heap, n, "ok")
       IN  /\ heap' = c.heap
           /\ handles' = [handles EXCEPT !.src = c.qs]
           /\ call' = [op |-> "create", args |-> <<n, "ok">>]
  /\ ret' = 0
  /\ ops' = 0
  /\ UNCHANGED <<qs, old, dm, reduced, loop>>

Clone ==
  /\ CloneCanCall
  /\ handles.dst = NULL
  /\ \E alloc \in AllocOutcomes :
       LET c == qstate_clone(heap, handles.src, alloc)
       IN  /\ heap' = c.heap
           /\ handles' = [handles EXCEPT !.dst = c.qs]
           /\ call' = [op |-> "clone", args |-> <<"src", alloc>>]
  /\ ret' = 0
  /\ ops' = ops + 1
  /\ UNCHANGED <<qs, old, dm, reduced, loop>>

OnInitBasis ==
  CloneCanCall /\ \E x \in Live : \E b \in BitStringsOf(x) :
    ReturnedOn(x, "init_basis", <<b>>, qstate_init_basis(StateOf(x), b))

OnSetAmplitude ==
  CloneCanCall /\ \E x \in Live : \E i \in IndicesOf(x), a \in AmpSet :
    /\ StateOf(x).scale = One \/ a = Zero
    /\ ReturnedOn(x, "set_amplitude", <<i, a>>, qstate_set_amplitude(StateOf(x), i, a))

OnApplyX ==
  CloneCanCall /\ \E x \in Live : \E t \in QubitsOf(x) :
    ReturnedOn(x, "apply_x", <<t>>, qstate_apply_x(StateOf(x), t))

OnApplyY ==
  CloneCanCall /\ \E x \in Live : \E t \in QubitsOf(x) :
    ReturnedOn(x, "apply_y", <<t>>, qstate_apply_y(StateOf(x), t))

OnApplyZ ==
  CloneCanCall /\ \E x \in Live : \E t \in QubitsOf(x) :
    ReturnedOn(x, "apply_z", <<t>>, qstate_apply_z(StateOf(x), t))

OnApplyH ==
  CloneCanCall /\ \E x \in Live : \E t \in QubitsOf(x) :
    ReturnedOn(x, "apply_h", <<t>>, qstate_apply_h(StateOf(x), t))

OnApplyS ==
  CloneCanCall /\ \E x \in Live : \E t \in QubitsOf(x) :
    ReturnedOn(x, "apply_s", <<t>>, qstate_apply_s(StateOf(x), t))

OnApplyT ==
  CloneCanCall /\ \E x \in Live : \E t \in QubitsOf(x) :
    ReturnedOn(x, "apply_t", <<t>>, qstate_apply_t(StateOf(x), t))

OnApplyRx ==
  CloneCanCall /\ \E x \in Live : \E t \in QubitsOf(x), th \in Thetas :
    ReturnedOn(x, "apply_rx", <<t, th>>, qstate_apply_rx(StateOf(x), t, th))

OnApplyRy ==
  CloneCanCall /\ \E x \in Live : \E t \in QubitsOf(x), th \in Thetas :
    ReturnedOn(x, "apply_ry", <<t, th>>, qstate_apply_ry(StateOf(x), t, th))

OnApplyRz ==
  CloneCanCall /\ \E x \in Live : \E t \in QubitsOf(x), th \in Thetas :
    ReturnedOn(x, "apply_rz", <<t, th>>, qstate_apply_rz(StateOf(x), t, th))

OnApplyCnot ==
  CloneCanCall /\ \E x \in Live : \E c \in QubitsOf(x), t \in QubitsOf(x) :
    ReturnedOn(x, "apply_cnot", <<c, t>>, qstate_apply_cnot(StateOf(x), c, t))

OnApplyCz ==
  CloneCanCall /\ \E x \in Live : \E c \in QubitsOf(x), t \in QubitsOf(x) :
    ReturnedOn(x, "apply_cz", <<c, t>>, qstate_apply_cz(StateOf(x), c, t))

OnApplySwap ==
  CloneCanCall /\ \E x \in Live : \E c \in QubitsOf(x), t \in QubitsOf(x) :
    ReturnedOn(x, "apply_swap", <<c, t>>, qstate_apply_swap(StateOf(x), c, t))

OnApplyToffoli ==
  CloneCanCall /\ \E x \in Live : \E c1 \in QubitsOf(x), c2 \in QubitsOf(x), t \in QubitsOf(x) :
    ReturnedOn(x, "apply_toffoli", <<c1, c2, t>>,
               qstate_apply_toffoli(StateOf(x), c1, c2, t))

OnMeasure ==
  CloneCanCall /\ \E x \in Live : \E q \in QubitsOf(x), r \in RandDraws :
    ReturnedOn(x, "measure", <<q, r>>, qstate_measure(StateOf(x), q, r))

NextClone ==
  \/ CloneCreate
  \/ CloneResume
  \/ Clone
  \/ OnInitBasis
  \/ OnSetAmplitude
  \/ OnApplyX
  \/ OnApplyY
  \/ OnApplyZ
  \/ OnApplyH
  \/ OnApplyS
  \/ OnApplyT
  \/ OnApplyRx
  \/ OnApplyRy
  \/ OnApplyRz
  \/ OnApplyCnot
  \/ OnApplyCz
  \/ OnApplySwap
  \/ OnApplyToffoli
  \/ OnMeasure

SpecClone == Init /\ [][NextClone]_vars


(***************************************************************************)
(* Density matrices and expectation values.  The code of these operations  *)
(* is not among the sources (tests/test_v2_1.c calls them); they are       *)
(* modelled from sections 3, 4.4 and 4.5 of the specification.  The        *)
(* entries of a matrix built from a state are held in units of 1/scale,    *)
(* scale being that of the state.                                          *)
(***************************************************************************)
\* the largest register a density matrix is built from
MaxDmQubits == 2

\* rho[i, j] = psi[i] * conj(psi[j]), row-major
dmatrix_from_qstate(s) ==
  IF s = NULL THEN NULL
  ELSE [num_qubits |-> s.num_qubits,
        dim |-> s.vector_size,
        data |-> [e \in 0 .. s.vector_size * s.vector_size - 1 |->
                    Mul(s.state_vector[e \div s.vector_size],
                        Conj(s.state_vector[e % s.vector_size]))],
        scale |-> s.scale]

RECURSIVE Embed(_, _, _, _, _)
\* the full index whose retained bits are those of r and whose traced bits
\* are those of t, each at its qubit's position; q is the next position
Embed(q, num_qubits, traced, r, t) ==
  IF q >= num_qubits THEN 0
  ELSE IF q \in traced
       THEN (t % 2) * Pow2(q) + Embed(q + 1, num_qubits, traced, r, t \div 2)
       ELSE (r % 2) * Pow2(q) + Embed(q + 1, num_qubits, traced, r \div 2, t)

\* mutant: only the first assignment of the traced qubits is taken
TraceSum_first(rho, traced, r1, r2, t, last) ==
  rho.data[Embed(0, rho.num_qubits, traced, r1, t) * rho.dim
             + Embed(0, rho.num_qubits, traced, r2, t)]

RECURSIVE TraceSum(_, _, _, _, _, _)
\* the sum of rho[embed(r1, t), embed(r2, t)] over the assignments t .. last
TraceSum(rho, traced, r1, r2, t, last) ==
  IF t > last THEN Zero
  ELSE Add(rho.data[Embed(0, rho.num_qubits, traced, r1, t) * rho.dim
                      + Embed(0, rho.num_qubits, traced, r2, t)],
           TraceSum(rho, traced, r1, r2, t + 1, last))

\* the reduced matrix over the qubits that are not traced, or the
\* invalid-index error when a traced qubit is out of range or given twice
dmatrix_partial_trace(rho, num_traced, traced_qubits) ==
  IF rho = NULL THEN [reduced |-> NULL, ret |-> MACQ_ERROR_NULL_POINTER]
  ELSE IF \/ \E k \in 1 .. num_traced :
               traced_qubits[k] < 0 \/ traced_qubits[k] >= rho.num_qubits
          \/ \E j, k \in 1 .. num_traced : j # k /\ traced_qubits[j] = traced_qubits[k]
       THEN [reduced |-> NULL, ret |-> MACQ_ERROR_INVALID_INDEX]
  ELSE LET traced == {traced_qubits[k] : k \in 1 .. num_traced}
           n == rho.num_qubits - num_traced
           d == Pow2(n)
       IN  [reduced |-> [num_qubits |-> n,
                         dim |-> d,
                         data |-> [e \in 0 .. d * d - 1 |->
                                     TraceSum(rho, traced, e \div d, e % d,
                                              0, Pow2(num_traced) - 1)],
                         scale |-> rho.scale],
            ret |-> MACQ_SUCCESS]

\* the real part of a number
Re(z) == IF IsNaN(z) THEN NaN ELSE DivSqrt2(Add(z, Conj(z)), 2)

RECURSIVE InnerProduct(_, _, _, _, _)
\* the sum of conj(psi[i]) * phi[i] for i .. size-1, added to acc
InnerProduct(psi, phi, i, size, acc) ==
  IF i >= size THEN acc
  ELSE InnerProduct(psi, phi, i + 1, size, Add(acc, Mul(Conj(psi[i]), phi[i])))

\* mutant: the gate kernel runs on the state of the caller
qstate_expectation_value_in_place(s, gate, target) ==
  LET scratch == SingleQubitKernel(s, target, gate, 0).qs
  IN  [qs |-> scratch,
       ret |-> [num |-> Re(InnerProduct(s.state_vector, scratch.state_vector,
                                        0, s.vector_size, Zero)),
                den |-> s.scale]]

\* <psi|O|psi> for the single-qubit observable `gate` on `target`: the gate
\* kernel runs on a scratch copy, the state of the caller is only read
qstate_expectation_value(s, gate, target) ==
  LET scratch == SingleQubitKernel(s, target, gate, 0).qs
  IN  [qs |-> s,
       ret |-> [num |-> Re(InnerProduct(s.state_vector, scratch.state_vector,
                                        0, s.vector_size, Zero)),
                den |-> s.scale]]

\* the observables asked for: GATE_Z, GATE_X and GATE_Y
Observables == {"z", "x", "y"}

\* the sequences of qubits handed to the partial trace of a matrix of n
\* qubits: one or two of -1 .. n, not a valid choice of all n (the
\* specification is silent on a reduced matrix of no qubit)
TracedArgs(n) ==
  {q \in [1 .. 1 -> -1 .. n] \cup [1 .. 2 -> -1 .. n] :
     ~(/\ Len(q) = n
       /\ \A k \in 1 .. Len(q) : q[k] >= 0 /\ q[k] < n
       /\ \A j, k \in 1 .. Len(q) : j # k => q[j] # q[k])}

\* the caller has seen the result of the last call and goes on to a query
ResumeQuery ==
  /\ call.op \notin {"none", "idle"}
  /\ call' = [op |-> "idle", args |-> <<>>]
  /\ old' = NULL
  /\ ret' = 0
  /\ UNCHANGED <<qs, ops>>
  /\ UNCHANGED aside

DmCreate ==
  /\ call.op = "none"
  /\ \E n \in 1 .. MaxDmQubits :
       /\ qs' = qstate_create(n, "ok")
       /\ call' = [op |-> "create", args |-> <<n, "ok">>]
  /\ old' = qs
  /\ ret' = 0
  /\ ops' = 0
  /\ UNCHANGED aside

DmFromQstate ==
  /\ Idle
  /\ dm = NULL
  /\ dm' = dmatrix_from_qstate(qs)
  /\ call' = [op |-> "dmatrix_from_qstate", args |-> <<>>]
  /\ old' = qs
  /\ ret' = 0
  /\ UNCHANGED <<qs, ops, heap, handles, reduced, loop>>

PartialTrace ==
  /\ Idle
  /\ dm # NULL
  /\ reduced = NULL
  /\ \E traced_qubits \in TracedArgs(dm.num_qubits) :
       LET r == dmatrix_partial_trace(dm, Len(traced_qubits), traced_qubits)
       IN  /\ reduced' = r.reduced
           /\ ret' = r.ret
           /\ call' = [op |-> "dmatrix_partial_trace",
                       args |-> <<Len(traced_qubits), traced_qubits>>]
  /\ old' = qs
  /\ UNCHANGED <<qs, ops, heap, handles, dm, loop>>

ExpectationValue ==
  /\ Idle
  /\ dm = NULL
  /\ \E gate \in Observables, target \in 0 .. qs.num_qubits - 1 :
       LET r == qstate_expectation_value(qs, gate, target)
       IN  /\ qs' = r.qs
           /\ ret' = r.ret
           /\ call' = [op |-> "expectation_value", args |-> <<gate, target>>]
  /\ old' = qs
  /\ UNCHANGED ops
  /\ UNCHANGED aside

NextDensity ==
  \/ DmCreate
  \/ ResumeQuery
  \/ InitBasis
  \/ ApplyX
  \/ ApplyH
  \/ ApplyCnot
  \/ DmFromQstate
  \/ PartialTrace
  \/ ExpectationValue

SpecDensity == Init /\ [][NextDensity]_vars


(***************************************************************************)
(* The block loop of the single-qubit kernels, one iteration at a time.    *)
(* `loop` holds the loop variables and the pairs worked on so far.         *)
(***************************************************************************)
\* the largest register whose block loop is stepped through
MaxLoopQubits == 5

\* a kernel is entered with a valid target: block_size and num_blocks are
\* computed and the outer loop starts
EnterKernel ==
  /\ loop = NULL
  /\ \E num_qubits \in 1 .. MaxLoopQubits : \E target \in 0 .. num_qubits - 1 :
       loop' = [num_qubits |-> num_qubits,
                target |-> target,
                block_size |-> Pow2(target),
                num_blocks |-> Pow2(num_qubits) \div Pow2(target + 1),
                block |-> 0,
                i |-> 0,
                visited |-> <<>>]
  /\ UNCHANGED <<qs, old, call, ret, ops, heap, handles, dm, reduced>>

\* one iteration of the inner loop
LoopBody ==
  /\ loop # NULL
  /\ loop.block < loop.num_blocks
  /\ loop.i < loop.block_size
  /\ loop' = [loop EXCEPT !.visited = Append(@, BlockPair(loop.block, loop.i,
                                                          loop.block_size)),
                          !.i = @ + 1]
  /\ UNCHANGED <<qs, old, call, ret, ops, heap, handles, dm, reduced>>

\* the inner loop is over: the outer loop goes on to the next block
LoopNextBlock ==
  /\ loop # NULL
  /\ loop.block < loop.num_blocks
  /\ loop.i >= loop.block_size
  /\ loop' = [loop EXCEPT !.block = @ + 1, !.i = 0]
  /\ UNCHANGED <<qs, old, call, ret, ops, heap, handles, dm, reduced>>

NextLoop ==
  \/ EnterKernel
  \/ LoopBody
  \/ LoopNextBlock

SpecLoop == Init /\ [][NextLoop]_vars


(***************************************************************************)
(* The caller that writes amplitudes and reads them back: create, then at  *)
(* most MaxAmpOps calls of qstate_set_amplitude, qstate_get_amplitude and  *)
(* the Hadamard gate.  A read may follow the call before it directly.      *)
(***************************************************************************)
\* bound: the calls made after qstate_create
MaxAmpOps == 3

AmpCanCall == Idle /\ ops < MaxAmpOps

AmpResume ==
  /\ call.op \notin {"none", "idle"}
  /\ ops < MaxAmpOps
  /\ call' = [op |-> "idle", args |-> <<>>]
  /\ old' = NULL
  /\ ret' = 0
  /\ UNCHANGED <<qs, ops>>
  /\ UNCHANGED aside

AmpSetAmplitude ==
  /\ AmpCanCall
  /\ \E i \in IndexArgs, a \in AmpSet :
       /\ IF qs = NULL THEN TRUE ELSE IF qs.scale = One THEN TRUE ELSE a = Zero
       /\ Returned("set_amplitude", <<i, a>>, qstate_set_amplitude(qs, i, a))

AmpApplyH ==
  AmpCanCall /\ \E t \in QubitArgs : Returned("apply_h", <<t>>, qstate_apply_h(qs, t))

\* cplx amp = qstate_get_amplitude(qs, i), between two calls or as the
\* statement that follows a call
GetAmplitude ==
  /\ call.op # "none"
  /\ ops < MaxAmpOps
  /\ \E i \in IndexArgs :
       Returned("get_amplitude", <<i>>, qstate_get_amplitude(qs, i))

NextAmp ==
  \/ Create
  \/ AmpResume
  \/ AmpSetAmplitude
  \/ AmpApplyH
  \/ GetAmplitude

SpecAmp == Init /\ [][NextAmp]_vars


(***************************************************************************)
(* The claims                                                              *)
(***************************************************************************)
GateOps ==
  {"apply_x", "apply_y", "apply_z", "apply_h", "apply_s", "apply_t",
   "apply_rx", "apply_ry", "apply_rz",
   "apply_cnot", "apply_cz", "apply_swap", "apply_toffoli"}

\* how many of a gate call's arguments are qubit indices
NumQubitArgs(op) ==
  CASE op = "apply_toffoli" -> 3
    [] op \in {"apply_cnot", "apply_cz", "apply_swap"} -> 2
    [] OTHER -> 1

\* a gate call just returned, made on an existing state
GateReturned == call.op \in GateOps /\ old # NULL

InRange(q) == q >= 0 /\ q < old.num_qubits

AllInRange == \A k \in 1 .. NumQubitArgs(call.op) : InRange(call.args[k])

HasNaN(s) == \E i \in DOMAIN s.state_vector : IsNaN(s.state_vector[i])

\* the sum of the squared magnitudes of the buffer, in units of 1/scale
Mass(s) == SumAbs2(s.state_vector, 0, s.vector_size, Zero)

\* v1 / sqrt(s1) = v2 / sqrt(s2), for positive reals s1 and s2
SameValue(v1, s1, v2, s2) ==
  /\ ~IsNaN(v1) /\ ~IsNaN(v2)
  /\ Sign(s1) = 1 /\ Sign(s2) = 1
  /\ Mul(Abs2(v1), s2) = Mul(Abs2(v2), s1)
  /\ LET c == Mul(v1, Conj(v2))
     IN  c[3] = 0 /\ c[2] = -c[4] /\ Sign(c) >= 0

\* C1: qstate_create(n) with n in 1..30, when its two allocations succeed,
\* returns a state of n qubits and 2^n amplitudes, 1 at index 0 and 0 elsewhere.
C1_CreateBasisZero ==
  (call.op = "create" /\ call.args[1] \in 1 .. MAX_QUBITS /\ call.args[2] = "ok")
    => /\ qs # NULL
       /\ qs.num_qubits = call.args[1]
       /\ qs.vector_size = 2 ^ call.args[1]
       /\ DOMAIN qs.state_vector = 0 .. qs.vector_size - 1
       /\ \A i \in 0 .. qs.vector_size - 1 :
            qs.state_vector[i] = IF i = 0 THEN One ELSE Zero
       /\ qs.scale = One

C1_Witness ==
  call.op = "create" /\ call.args = <<MaxQubits, "ok">> /\ qs # NULL

\* C2: a gate call with a qubit argument that is negative or >= num_qubits
\* returns the invalid-index error and leaves every amplitude as it was.
C2_InvalidIndexNoChange ==
  (GateReturned /\ ~AllInRange)
    => (ret = MACQ_ERROR_INVALID_INDEX /\ qs = old)

C2_Witness ==
  /\ call.op = "apply_toffoli" /\ old # NULL
  /\ old.num_qubits = 3 /\ call.args = <<0, 1, 3>>
  /\ old.state_vector[3] = One

\* C3 (as claimed): qstate_init_basis that fails (wrong length, or a character
\* other than '0' and '1') returns the invalid-index error and leaves every
\* amplitude as it was.
C3_FailedInitBasisNoChange ==
  (/\ call.op = "init_basis" /\ old # NULL
   /\ \/ Len(call.args) # old.num_qubits
      \/ \E k \in 1 .. Len(call.args) : call.args[k] \notin {"0", "1"})
    => (/\ ret = MACQ_ERROR_INVALID_INDEX
        /\ qs.state_vector = old.state_vector
        /\ qs.scale = old.scale)

\* C4 (as claimed): qstate_apply_toffoli and qstate_apply_cz with two equal
\* in-range qubit arguments return an invalid-gate or invalid-index error and
\* leave every amplitude as it was.
C4_DuplicateQubitsRejected ==
  (/\ call.op \in {"apply_toffoli", "apply_cz"} /\ old # NULL
   /\ AllInRange
   /\ \E j, k \in 1 .. NumQubitArgs(call.op) : j # k /\ call.args[j] = call.args[k])
    => (/\ ret \in {MACQ_ERROR_INVALID_GATE, MACQ_ERROR_INVALID_INDEX}
        /\ qs = old)

\* C5: qstate_apply_cnot with control = target, both in range, returns the
\* invalid-gate error and leaves every amplitude as it was.
C5_CnotSameQubit ==
  (/\ call.op = "apply_cnot" /\ old # NULL
   /\ AllInRange /\ call.args[1] = call.args[2])
    => (ret = MACQ_ERROR_INVALID_GATE /\ qs = old)

C5_Witness ==
  /\ call.op = "apply_cnot" /\ old # NULL
  /\ old.num_qubits = 2 /\ call.args = <<1, 1>>
  /\ old.state_vector[2] # Zero

\* C6: qstate_measure with a qubit index outside [0, num_qubits) returns -1
\* and leaves every amplitude as it was; with a valid index it returns 0 or 1.
C6_MeasureReturn ==
  (call.op = "measure" /\ old # NULL)
    => IF InRange(call.args[1])
       THEN ret \in {0, 1}
       ELSE ret = -1 /\ qs = old

C6_Witness ==
  /\ call.op = "measure" /\ old # NULL
  /\ call.args[1] = old.num_qubits
  /\ ret = -1
  /\ \E i \in DOMAIN old.state_vector : old.state_vector[i] \notin {Zero, One}

\* the probability mass of outcome r for a qubit of a state, in units of 1/scale
OutcomeMass(s, qubit, r) ==
  ProbLoop(s.state_vector, 0, s.vector_size, qubit, Zero, Zero)[r + 1]

\* a measurement of a valid qubit just returned, made on a state of numbers
\* whose norm is not 0
MeasuredNonZero ==
  /\ call.op = "measure" /\ old # NULL
  /\ InRange(call.args[1])
  /\ ~HasNaN(old)
  /\ Sign(Mass(old)) = 1

\* C7 (as claimed): after qstate_measure(qubit) returns r on a state with
\* non-zero norm, every amplitude whose bit `qubit` differs from r is 0, every
\* other amplitude is its previous value divided by the square root of the
\* previous probability mass of r, and the squared magnitudes sum to 1.
C7_CollapseRenormalises ==
  MeasuredNonZero
    => LET q == call.args[1]
           \* previous value / sqrt(mass / old.scale), the value being
           \* old.state_vector[i] / sqrt(old.scale)
           m == OutcomeMass(old, q, ret)
       IN  /\ \A i \in 0 .. old.vector_size - 1 :
                IF BitSet(i, q) = (ret = 1)
                THEN SameValue(qs.state_vector[i], qs.scale, old.state_vector[i], m)
                ELSE qs.state_vector[i] = Zero
           /\ Mass(qs) = qs.scale

\* C8: qstate_init_basis with a string of num_qubits characters '0' and '1'
\* leaves one non-zero amplitude, equal to 1, at the index whose bit q is the
\* character at position q, whatever the state held before.
C8_InitBasisSetsIndex ==
  (/\ call.op = "init_basis" /\ old # NULL
   /\ Len(call.args) = old.num_qubits
   /\ \A k \in 1 .. Len(call.args) : call.args[k] \in {"0", "1"})
    => /\ ret = MACQ_SUCCESS
       /\ qs.scale = One
       /\ \A i \in 0 .. old.vector_size - 1 :
            LET matches == \A q \in 0 .. old.num_qubits - 1 :
                             BitSet(i, q) <=> (call.args[q + 1] = "1")
            IN  qs.state_vector[i] = IF matches THEN One ELSE Zero

C8_Witness ==
  /\ call.op = "init_basis" /\ old # NULL
  /\ old.num_qubits = 3 /\ call.args = <<"1", "1", "0">>
  /\ old.state_vector # qstate_create(3, "ok").state_vector
  /\ ret = MACQ_SUCCESS

\* C9: a gate applied with valid arguments leaves the sum of the squared
\* magnitudes of the amplitudes as it was, in every state a sequence of calls
\* reaches (so along every sequence of gate calls).
C9_GatesPreserveNorm ==
  (GateReturned /\ AllInRange)
    => (Mass(qs) = Mass(old) /\ qs.scale = old.scale)

C9_Witness ==
  /\ call.op = "apply_h" /\ old # NULL /\ AllInRange
  /\ ret = MACQ_SUCCESS
  /\ Mass(old) \notin {Zero, One}
  /\ qs.state_vector # old.state_vector

\* C10: X applied twice to the same target, and SWAP applied twice to the same
\* pair, give back every amplitude: the call that undoes the X or the SWAP that
\* just returned restores the state it was made on.
C10_TwiceIsIdentity ==
  /\ (call.op = "apply_x" /\ old # NULL /\ ret = MACQ_SUCCESS)
       => qstate_apply_x(qs, call.args[1]) = [qs |-> old, ret |-> MACQ_SUCCESS]
  /\ (call.op = "apply_swap" /\ old # NULL /\ ret = MACQ_SUCCESS)
       => qstate_apply_swap(qs, call.args[1], call.args[2])
            = [qs |-> old, ret |-> MACQ_SUCCESS]

C10_Witness ==
  /\ call.op = "apply_swap" /\ old # NULL
  /\ ret = MACQ_SUCCESS
  /\ call.args[1] # call.args[2]
  /\ qs.state_vector # old.state_vector
  /\ qstate_apply_swap(qs, call.args[1], call.args[2]).qs = old

\* the state holds amplitude 1 at index b and 0 at every other index
IsBasisState(s, b) ==
  /\ s.scale = One
  /\ \A i \in 0 .. s.vector_size - 1 :
       s.state_vector[i] = IF i = b THEN One ELSE Zero

\* C11: on each of the 8 basis states of a 3-qubit register,
\* qstate_apply_toffoli(0, 1, 2) succeeds and moves the amplitude 1 to the
\* index with bit 2 flipped when bits 0 and 1 of the index are both 1, and
\* leaves the state as it was otherwise.
C11_ToffoliTruthTable ==
  (/\ call.op = "apply_toffoli" /\ old # NULL
   /\ old.num_qubits = 3 /\ call.args = <<0, 1, 2>>)
    => \A b \in 0 .. 7 :
         IsBasisState(old, b)
           => /\ ret = MACQ_SUCCESS
              /\ qs.num_qubits = 3
              /\ IsBasisState(qs, IF b % 4 = 3
                                  THEN (IF b >= 4 THEN b - 4 ELSE b + 4)
                                  ELSE b)

C11_Witness ==
  /\ call.op = "apply_toffoli" /\ old # NULL
  /\ old.num_qubits = 3 /\ call.args = <<0, 1, 2>>
  /\ IsBasisState(old, 7)
  /\ ret = MACQ_SUCCESS

\* C12: on a freshly created 2-qubit state H on qubit 0 gives 1/sqrt 2 at
\* indices 0 and 1, and CNOT(0, 1) on that state gives 1/sqrt 2 at indices 0
\* and 3 and 0 at indices 1 and 2.
C12_BellState ==
  /\ (/\ call.op = "apply_h" /\ old # NULL /\ call.args = <<0>>
      /\ old.num_qubits = 2 /\ IsBasisState(old, 0))
       => /\ ret = MACQ_SUCCESS
          /\ qs.scale = One
          /\ qs.state_vector = [i \in 0 .. 3 |-> IF i \in {0, 1}
                                                THEN <<1, 0, 0, 0, 1>> ELSE Zero]
  /\ (/\ call.op = "apply_cnot" /\ old # NULL /\ call.args = <<0, 1>>
      /\ old.num_qubits = 2 /\ old.scale = One
      /\ old.state_vector = [i \in 0 .. 3 |-> IF i \in {0, 1}
                                               THEN <<1, 0, 0, 0, 1>> ELSE Zero])
       => /\ ret = MACQ_SUCCESS
          /\ qs.scale = One
          /\ qs.state_vector = [i \in 0 .. 3 |-> IF i \in {0, 3}
                                                THEN <<1, 0, 0, 0, 1>> ELSE Zero]

C12_Witness ==
  /\ call.op = "apply_cnot" /\ old # NULL /\ call.args = <<0, 1>>
  /\ ops = 2
  /\ old.num_qubits = 2 /\ old.scale = One
  /\ old.state_vector = [i \in 0 .. 3 |-> IF i \in {0, 1}
                                           THEN <<1, 0, 0, 0, 1>> ELSE Zero]
  /\ qs.state_vector[3] = <<1, 0, 0, 0, 1>>

\* C13 (as claimed): qstate_normalize on a state whose norm is below 1e-10
\* returns an error and leaves every amplitude as it was; on any other state
\* it returns success and the squared magnitudes then sum to 1.
C13_NormalizeContract ==
  (call.op = "normalize" /\ old # NULL)
    => IF NormBelow(Mass(old), old.scale, 0)
       THEN /\ ret # MACQ_SUCCESS
            /\ qs.state_vector = old.state_vector
            /\ qs.scale = old.scale
       ELSE /\ ret = MACQ_SUCCESS
            /\ Mass(qs) = qs.scale

RECURSIVE SumSq(_, _)
\* the sum of the squared magnitudes of a state over a set of indices
SumSq(s, I) ==
  IF I = {} THEN Zero
  ELSE LET i == CHOOSE x \in I : TRUE
       IN  Add(Abs2(s.state_vector[i]), SumSq(s, I \ {i}))

\* C14: qstate_probability and qstate_basis_probability leave the state as
\* it was; they return the sum of the squared magnitudes over the indices
\* whose bit `qubit` is 1, and the squared magnitude at the index, and -1.0
\* when the qubit or the index is out of range or there is no state.
C14_ProbabilityReadOnly ==
  /\ call.op \in {"probability", "basis_probability"} => qs = old
  /\ call.op = "probability"
       => IF old # NULL /\ call.args[1] >= 0 /\ call.args[1] < old.num_qubits
          THEN /\ ret.den = old.scale
               /\ ret.num = SumSq(old, {i \in 0 .. old.vector_size - 1 :
                                          (i \div 2 ^ call.args[1]) % 2 = 1})
          ELSE ret = [num |-> <<-1, 0, 0, 0, 0>>, den |-> One]
  /\ call.op = "basis_probability"
       => IF old # NULL /\ call.args[1] < old.vector_size
          THEN /\ ret.den = old.scale
               /\ ret.num = Abs2(old.state_vector[call.args[1]])
          ELSE ret = [num |-> <<-1, 0, 0, 0, 0>>, den |-> One]

C14_Witness ==
  /\ call.op = "probability" /\ old # NULL
  /\ old.num_qubits = 2 /\ call.args = <<1>>
  /\ old.scale = One
  /\ ret.num = <<1, 0, 0, 0, 2>>

\* the calls that write to the buffer of the handle they are made on
WritingOps == GateOps \cup {"init_basis", "set_amplitude", "measure"}

\* the other handle
OtherOf(x) == IF x = "src" THEN "dst" ELSE "src"

\* C15: qstate_clone, when its allocations succeed, returns a state with the
\* num_qubits and every amplitude of the source, and from then on a gate,
\* measurement, set_amplitude or init_basis call on one of the two handles
\* leaves every amplitude of the other as it was.
C15_CloneIndependent ==
  /\ []((call.op = "clone" /\ call.args[2] = "ok")
          => /\ handles.dst # NULL
             /\ handles.dst.state_vector # handles.src.state_vector
             /\ StateOf("dst").num_qubits = StateOf("src").num_qubits
             /\ StateOf("dst").state_vector = StateOf("src").state_vector
             /\ StateOf("dst").scale = StateOf("src").scale)
  /\ [][\A x \in Handles :
          (call'.op \in WritingOps /\ call'.args[1] = x /\ handles.dst # NULL)
            => StateOf(OtherOf(x))' = StateOf(OtherOf(x))]_vars

C15_Witness ==
  /\ call.op = "apply_h" /\ call.args[1] = "src"
  /\ handles.dst # NULL
  /\ StateOf("dst").state_vector[1] = <<0, 0, 2, 0, 0>>
  /\ StateOf("src").state_vector # StateOf("dst").state_vector

\* C16: qstate_create(n) with n < 1 or n > 30 returns to its caller with no
\* state, whatever the allocations would do, and the caller is left without
\* a handle: no later call creates a state.
C16_CreateOutOfRange ==
  /\ (call.op = "create" /\ (call.args[1] < 1 \/ call.args[1] > 30))
       => qs = NULL
  /\ (call.op \notin {"none", "create", "idle"} /\ old = NULL)
       => qs = NULL

C16_Witness ==
  /\ call.op = "create"
  /\ call.args = <<MAX_QUBITS + 1, "ok">>
  /\ qs = NULL

\* the amplitudes of the 2-qubit Bell state: 1/sqrt 2 at indices 0 and 3
BellVector == [i \in 0 .. 3 |-> IF i \in {0, 3} THEN <<1, 0, 0, 0, 1>> ELSE Zero]

\* its density matrix: 1/2 at (0,0), (0,3), (3,0) and (3,3), row-major
BellRho == [e \in 0 .. 15 |-> IF e \in {0, 3, 12, 15} THEN <<1, 0, 0, 0, 2>> ELSE Zero]

\* C17: the density matrix built from the 2-qubit Bell state holds 1/2 at its
\* four corners, and tracing qubit 1 out of it succeeds with a 1-qubit matrix
\* that holds 1/2 on both diagonal entries and 0 off the diagonal.
C17_PartialTraceBell ==
  /\ (/\ call.op = "dmatrix_from_qstate" /\ qs # NULL
      /\ qs.num_qubits = 2 /\ qs.scale = One /\ qs.state_vector = BellVector)
       => /\ dm # NULL
          /\ dm.num_qubits = 2 /\ dm.dim = 4 /\ dm.scale = One
          /\ dm.data = BellRho
  /\ (/\ call.op = "dmatrix_partial_trace" /\ call.args = <<1, <<1>>>>
      /\ dm.num_qubits = 2 /\ dm.scale = One /\ dm.data = BellRho)
       => /\ ret = MACQ_SUCCESS
          /\ reduced # NULL
          /\ reduced.num_qubits = 1 /\ reduced.dim = 2 /\ reduced.scale = One
          /\ reduced.data = [e \in 0 .. 3 |-> IF e \in {0, 3}
                                              THEN <<1, 0, 0, 0, 2>> ELSE Zero]

C17_Witness ==
  /\ call.op = "dmatrix_partial_trace" /\ call.args = <<1, <<1>>>>
  /\ ops = 2
  /\ qs.num_qubits = 2 /\ qs.state_vector = BellVector
  /\ dm.data = BellRho
  /\ reduced # NULL

\* C18: the expectation value of Z on qubit q of a basis state is +1 when bit
\* q of its index is 0 and -1 when it is 1, that of X on H|0> is +1, and the
\* call leaves the state of the caller as it was.
C18_ExpectationValue ==
  call.op = "expectation_value"
    => /\ qs = old
       /\ call.args[1] = "z"
            => \A b \in 0 .. old.vector_size - 1 :
                 IsBasisState(old, b)
                   => ret = [num |-> IF (b \div 2 ^ call.args[2]) % 2 = 0
                                     THEN <<1, 0, 0, 0, 0>> ELSE <<-1, 0, 0, 0, 0>>,
                             den |-> One]
       /\ (/\ call.args = <<"x", 0>>
           /\ old.num_qubits = 1 /\ old.scale = One
           /\ old.state_vector = [i \in 0 .. 1 |-> <<1, 0, 0, 0, 1>>])
            => ret = [num |-> <<1, 0, 0, 0, 0>>, den |-> One]

C18_Witness ==
  /\ call.op = "expectation_value" /\ call.args = <<"x", 0>>
  /\ old.num_qubits = 1
  /\ old.state_vector = [i \in 0 .. 1 |-> <<1, 0, 0, 0, 1>>]
  /\ ret.num = One

\* the block loop has run to its end
LoopDone == loop # NULL /\ loop.block >= loop.num_blocks

\* C19: for every n and every target t in [0, n) the block loop never works
\* on a pair twice, every pair it works on is (idx, idx + 2^t) with bit t of
\* idx clear and idx + 2^t < 2^n, and when it ends it has worked on every
\* such pair, so that every index in [0, 2^n) lies in exactly one pair.
C19_BlockLoopPairs ==
  loop # NULL
    => LET v == loop.visited
           size == 2 ^ loop.num_qubits
           step == 2 ^ loop.target
       IN  /\ \A j, k \in 1 .. Len(v) : j # k => v[j] # v[k]
           /\ \A k \in 1 .. Len(v) :
                /\ v[k][1] \in 0 .. size - 1
                /\ (v[k][1] \div step) % 2 = 0
                /\ v[k][2] = v[k][1] + step
                /\ v[k][2] \in 0 .. size - 1
           /\ LoopDone
                => /\ \A idx \in 0 .. size - 1 :
                        (idx \div step) % 2 = 0
                          => \E k \in 1 .. Len(v) : v[k] = <<idx, idx + step>>
                   /\ \A idx \in 0 .. size - 1 :
                        Cardinality({k \in 1 .. Len(v) :
                                       v[k][1] = idx \/ v[k][2] = idx}) = 1

C19_Witness ==
  /\ LoopDone
  /\ loop.num_qubits = 3 /\ loop.target = 1
  /\ Len(loop.visited) = 4

\* C20: qstate_apply_cnot(control, target) with two different valid qubits
\* succeeds and leaves, at every index whose control bit is 1, the previous
\* amplitude of the index with the target bit flipped, and at every other
\* index the previous amplitude, whichever of control and target is higher.
C20_CnotSemantics ==
  (/\ call.op = "apply_cnot" /\ old # NULL
   /\ AllInRange /\ call.args[1] # call.args[2])
    => LET c == 2 ^ call.args[1]
           t == 2 ^ call.args[2]
       IN  /\ ret = MACQ_SUCCESS
           /\ qs.scale = old.scale
           /\ \A i \in 0 .. old.vector_size - 1 :
                qs.state_vector[i] =
                  IF (i \div c) % 2 = 1
                  THEN old.state_vector[IF (i \div t) % 2 = 1 THEN i - t ELSE i + t]
                  ELSE old.state_vector[i]

C20_Witness ==
  /\ call.op = "apply_cnot" /\ old # NULL
  /\ old.num_qubits = 3 /\ call.args = <<2, 0>>
  /\ ret = MACQ_SUCCESS
  /\ qs.state_vector[4] # old.state_vector[4]
  /\ qs.state_vector[5] # Zero

\* the index obtained from i by exchanging its bits q1 and q2
ExchangeBits(i, q1, q2) ==
  LET b1 == (i \div 2 ^ q1) % 2
      b2 == (i \div 2 ^ q2) % 2
  IN  i - b1 * 2 ^ q1 - b2 * 2 ^ q2 + b2 * 2 ^ q1 + b1 * 2 ^ q2

\* C21: qstate_apply_swap(q1, q2) with valid qubits succeeds and leaves, at
\* every index i, the previous amplitude of the index obtained from i by
\* exchanging bits q1 and q2; an index whose two bits are equal keeps its
\* amplitude, and with q1 = q2 the call succeeds and changes nothing.
C21_SwapSemantics ==
  (call.op = "apply_swap" /\ old # NULL /\ AllInRange)
    => LET q1 == call.args[1]
           q2 == call.args[2]
       IN  /\ ret = MACQ_SUCCESS
           /\ qs.scale = old.scale
           /\ \A i \in 0 .. old.vector_size - 1 :
                /\ qs.state_vector[i] = old.state_vector[ExchangeBits(i, q1, q2)]
                /\ ((i \div 2 ^ q1) % 2 = (i \div 2 ^ q2) % 2)
                     => qs.state_vector[i] = old.state_vector[i]
           /\ (q1 = q2) => qs = old

\* a swap of qubits 0 and 2 of three moved the amplitude of index 1 to index 4
C21_Witness ==
  /\ call.op = "apply_swap" /\ old # NULL
  /\ old.num_qubits = 3 /\ call.args = <<0, 2>>
  /\ ret = MACQ_SUCCESS
  /\ old.state_vector[1] # Zero /\ old.state_vector[4] = Zero
  /\ qs.state_vector[4] = old.state_vector[1] /\ qs.state_vector[1] = Zero

\* C22 (as claimed): qstate_measure never returns an outcome of probability
\* zero: when the previous mass of one outcome is 0 and that of the other is
\* positive, the call returns the outcome with positive mass for every draw
\* of the random source (rand() = 0 and rand() = RAND_MAX included), and the
\* collapse divides by a non-zero factor, so no amplitude becomes NaN and a
\* second measurement of the qubit meets the same one-sided masses.
C22_MeasureNeverZeroOutcome ==
  MeasuredNonZero
    => LET q == call.args[1]
           m0 == OutcomeMass(old, q, 0)
           m1 == OutcomeMass(old, q, 1)
       IN  /\ (Sign(m1) = 0 /\ Sign(m0) = 1)
                => /\ ret = 0
                   /\ ~HasNaN(qs)
                   /\ Sign(OutcomeMass(qs, q, 1)) = 0
                   /\ Sign(OutcomeMass(qs, q, 0)) = 1
           /\ (Sign(m0) = 0 /\ Sign(m1) = 1)
                => /\ ret = 1
                   /\ ~HasNaN(qs)
                   /\ Sign(OutcomeMass(qs, q, 0)) = 0
                   /\ Sign(OutcomeMass(qs, q, 1)) = 1

\* the cplx r is the amplitude a (a number of scale 1)
ReturnsAmplitude(r, a) == SameValue(r.num, r.den, a, One)

\* C23: qstate_set_amplitude(i, a) with i < vector_size succeeds, puts a at
\* index i and leaves every other amplitude as it was, and a
\* qstate_get_amplitude(i) that follows returns a; with i >= vector_size it
\* returns MACQ_ERROR_INVALID_INDEX and changes nothing.
\* qstate_get_amplitude returns the amplitude the buffer holds at a valid
\* index and 0 at an index >= vector_size, and changes nothing.
C23_SetGetAmplitude ==
  /\ [](/\ (call.op = "set_amplitude" /\ old # NULL)
             => IF call.args[1] < old.vector_size
                THEN /\ ret = MACQ_SUCCESS
                     /\ qs.state_vector[call.args[1]] = call.args[2]
                     /\ qs = [old EXCEPT !.state_vector[call.args[1]] = call.args[2]]
                ELSE ret = MACQ_ERROR_INVALID_INDEX /\ qs = old
         /\ (call.op = "get_amplitude" /\ old # NULL)
             => /\ qs = old
                /\ IF call.args[1] < old.vector_size
                   THEN ret = [num |-> old.state_vector[call.args[1]],
                               den |-> old.scale]
                   ELSE ret = CplxZero)
  /\ [][(/\ call.op = "set_amplitude" /\ old # NULL
          /\ ret = MACQ_SUCCESS
          /\ call'.op = "get_amplitude"
          /\ call'.args[1] = call.args[1])
           => ReturnsAmplitude(ret', call.args[2])]_vars

\* index 1 of a state of two qubits was read and held the amplitude 2i, which
\* only qstate_set_amplitude puts there
C23_Witness ==
  /\ call.op = "get_amplitude" /\ old # NULL
  /\ old.num_qubits = 2 /\ call.args = <<1>>
  /\ ret = [num |-> <<0, 0, 2, 0, 0>>, den |-> One]
  /\ qs.state_vector[0] = One

\* the cached norm field of a state is the norm of its buffer:
\* norm^2 = (sum of the squared magnitudes) / scale
NormCached(s) ==
  /\ ~IsNaN(Mass(s))
  /\ Mul(Mul(s.norm, s.norm), s.scale) = Mass(s)

\* C24 (as claimed): in every reachable state the cached norm field of the
\* QuantumState equals the norm that qstate_norm computes from the amplitudes.
C24_CachedNorm == (qs # NULL) => NormCached(qs)

=============================================================================
